---- MODULE Spec2Model ----
(***************************************************************************)
(* Model of the alarm manager of main/mcp/alarm.cc: the UTC calendar       *)
(* arithmetic, the recurrence engine (RecalculateNextTrigger), the alarm   *)
(* store with its persistence (SaveToSettings / LoadFromSettings) and the  *)
(* single esp_timer the manager keeps armed for the soonest trigger.       *)
(*                                                                         *)
(* Instants are UTC seconds since 1970-01-01, as time_t in the source.     *)
(* time_t has 64 bits on the target; `long`, in which timegm_compat        *)
(* computes, has 32, and its overflow is undefined behaviour.              *)
(***************************************************************************)
EXTENDS Integers, Sequences, FiniteSets, TLC

\* What the build makes of an overflow of `long seconds` in timegm_compat:
\* TRUE when the value wraps to 32 bits, FALSE when the whole value reaches
\* the time_t returned.
VARIABLE long_wraps

(***************************************************************************)
(* Time arithmetic                                                         *)
(***************************************************************************)

\* (y % 4 == 0 && y % 100 != 0) || (y % 400 == 0)
IsLeap(y) ==
    (y % 4 = 0 /\ y % 100 # 0) \/ (y % 400 = 0)

\* static const int mdays[12]
mdays(m) ==
    CASE m = 2 -> 28
      [] m \in {4, 6, 9, 11} -> 30
      [] OTHER -> 31

\* for (int y = 1970; y < year; ++y) days += 365 + leap(y)
RECURSIVE DaysBeforeYear(_, _)
DaysBeforeYear(y, year) ==
    IF y >= year THEN 0
    ELSE 365 + (IF IsLeap(y) THEN 1 ELSE 0) + DaysBeforeYear(y + 1, year)

\* for (int m = 1; m < month; ++m) days += mdays[m-1] (+1 for a leap February)
RECURSIVE DaysBeforeMonth(_, _, _)
DaysBeforeMonth(m, month, year) ==
    IF m >= month THEN 0
    ELSE mdays(m) + (IF m = 2 /\ IsLeap(year) THEN 1 ELSE 0)
         + DaysBeforeMonth(m + 1, month, year)

\* The month is clamped into 1..12; the day of the month is not clamped.
ClampMonth(month) ==
    IF month <= 0 THEN 1 ELSE IF month > 12 THEN 12 ELSE month

\* The years whose day count since 1970 is tabulated: the result of the loop
\* over the years, computed once for each year the model's instants fall in.
TableYears == 1970..2037

DaysBeforeYearTable == [year \in TableYears |-> DaysBeforeYear(1970, year)]

DaysToYear(year) ==
    IF year \in TableYears THEN DaysBeforeYearTable[year]
    ELSE DaysBeforeYear(1970, year)

\* long days, as the two loops and the day of the month leave it: t is a
\* broken-down time with the fields of struct tm (tm_year counts from 1900,
\* tm_mon from 0).
DaysOf(t) ==
    LET year  == t.tm_year + 1900
        month == ClampMonth(t.tm_mon + 1)
    IN  DaysToYear(year) + DaysBeforeMonth(1, month, year) + (t.tm_mday - 1)

\* t->tm_hour * 3600L + t->tm_min * 60L + t->tm_sec
SecondsOfDay(t) ==
    t.tm_hour * 3600 + t.tm_min * 60 + t.tm_sec

\* days * 86400L + the seconds of the day, where it fits the 32 bits of a
\* `long` (up to 2^31 - 1, 2038-01-19 03:14:07).
SecondsOf(t) ==
    DaysOf(t) * 86400 + SecondsOfDay(t)

\* The sum does not fit a `long`: 2^31 = 24855 * 86400 + 11648.
LongOverflows(t) ==
    (DaysOf(t) - 24855) * 86400 + SecondsOfDay(t) - 11648 >= 0

\* The sum less 2^32, which is what 32 bits keep of a sum from 2^31 up to
\* 2^32 - 1 (the dates from 2038 to 2106): 2^32 = 49710 * 86400 + 23296.
WrappedLong(t) ==
    (DaysOf(t) - 49710) * 86400 + SecondsOfDay(t) - 23296

\* The last instant the numbers of the model hold; a later instant is held
\* as this one.
TimeMax == 2147483647

\* The outcomes of the undefined signed overflow of `long seconds`: the build
\* wraps the sum to 32 bits (TRUE), or it carries the whole sum into the
\* 64-bit time_t it returns (FALSE).
LongOverflowOutcomes == BOOLEAN

\* timegm_compat(struct tm*)
timegm_compat(t) ==
    IF ~LongOverflows(t) THEN SecondsOf(t)
    ELSE IF long_wraps THEN WrappedLong(t)
    ELSE TimeMax

MakeTimeUTC(year, month, day, hour, minute, second) ==
    timegm_compat([tm_year |-> year - 1900, tm_mon |-> month - 1,
                   tm_mday |-> day, tm_hour |-> hour, tm_min |-> minute,
                   tm_sec |-> second, tm_wday |-> 0])

\* gmtime() of the C library, for instants from the epoch on: the year is
\* the last one that starts at or before the day, the month likewise.
RECURSIVE YearOfDays(_, _)
YearOfDays(days, y) ==
    IF DaysToYear(y + 1) <= days THEN YearOfDays(days, y + 1) ELSE y

RECURSIVE MonthOfDays(_, _, _)
MonthOfDays(yday, m, year) ==
    LET n == mdays(m) + (IF m = 2 /\ IsLeap(year) THEN 1 ELSE 0)
    IN  IF yday < n THEN [mon |-> m, mday |-> yday + 1]
        ELSE MonthOfDays(yday - n, m + 1, year)

gmtime(t) ==
    LET days == t \div 86400
        rem  == t % 86400
        year == YearOfDays(days, 1970 + days \div 366)
        md   == MonthOfDays(days - DaysToYear(year), 1, year)
    IN  [tm_year |-> year - 1900, tm_mon |-> md.mon - 1,
         tm_mday |-> md.mday, tm_hour |-> rem \div 3600,
         tm_min |-> (rem % 3600) \div 60, tm_sec |-> rem % 60,
         tm_wday |-> (days + 4) % 7]

(***************************************************************************)
(* Recurrence engine                                                       *)
(***************************************************************************)

\* item.weekdays_mask & (1 << maskIndex)
BitSet(mask, idx) ==
    (mask \div (2 ^ idx)) % 2 = 1

\* The interval taken as it is, without the default of 60 seconds.
EffectiveIntervalNoDefault(item) ==
    item.interval_seconds

\* interval_seconds, or 60 when it is not positive
EffectiveInterval(item) ==
    IF item.interval_seconds > 0 THEN item.interval_seconds ELSE 60

\* The Weekly scan taking tm_wday itself as the index of the mask bit, so
\* that bit0 is Sunday.
RECURSIVE WeeklyScanSundayFirst(_, _, _)
WeeklyScanSundayFirst(item, now, offset) ==
    IF offset >= 14 THEN 0
    ELSE LET candidate == now + offset * 24 * 3600
             tm_cand   == gmtime(candidate)
             maskIndex == tm_cand.tm_wday
             t == timegm_compat([tm_cand EXCEPT !.tm_hour = item.hour,
                                                !.tm_min = item.minute,
                                                !.tm_sec = item.second])
         IN  IF BitSet(item.weekdays_mask, maskIndex) /\ t > now THEN t
             ELSE WeeklyScanSundayFirst(item, now, offset + 1)

\* The Weekly scan: offsets 0..13 days from now, first selected weekday whose
\* instant at the alarm's time of day is strictly after now; 0 when none.
RECURSIVE WeeklyScan(_, _, _)
WeeklyScan(item, now, offset) ==
    IF offset >= 14 THEN 0
    ELSE LET candidate == now + offset * 24 * 3600
             tm_cand   == gmtime(candidate)
             weekday   == tm_cand.tm_wday
             maskIndex == IF weekday = 0 THEN 6 ELSE weekday - 1
             t == timegm_compat([tm_cand EXCEPT !.tm_hour = item.hour,
                                                !.tm_min = item.minute,
                                                !.tm_sec = item.second])
         IN  IF BitSet(item.weekdays_mask, maskIndex) /\ t > now THEN t
             ELSE WeeklyScan(item, now, offset + 1)

\* The Monthly scan with the day clamped to the last day of a short month
\* instead of skipping the month.
RECURSIVE MonthlyScanClamped(_, _, _, _, _)
MonthlyScanClamped(item, now, year, month, i) ==
    IF i >= 24 THEN 0
    ELSE LET y   == year + (month - 1) \div 12
             m   == ((month - 1) % 12) + 1
             md  == IF m \in {4, 6, 9, 11} THEN 30
                    ELSE IF m = 2 THEN (IF IsLeap(y) THEN 29 ELSE 28)
                    ELSE 31
             day == IF item.day < 1 THEN 1
                    ELSE IF item.day > md THEN md ELSE item.day
             t   == MakeTimeUTC(y, m, day, item.hour, item.minute, item.second)
         IN  IF t > now THEN t
             ELSE MonthlyScanClamped(item, now, year, month + 1, i + 1)

\* The Monthly scan: 24 candidate months from the month of now; a month with
\* fewer days than item.day is skipped; 0 when no candidate is after now.
RECURSIVE MonthlyScan(_, _, _, _, _)
MonthlyScan(item, now, year, month, i) ==
    IF i >= 24 THEN 0
    ELSE LET y   == year + (month - 1) \div 12
             m   == ((month - 1) % 12) + 1
             day == IF item.day < 1 THEN 1 ELSE item.day
             md  == IF m \in {4, 6, 9, 11} THEN 30
                    ELSE IF m = 2 THEN (IF IsLeap(y) THEN 29 ELSE 28)
                    ELSE 31
             t   == MakeTimeUTC(y, m, day, item.hour, item.minute, item.second)
         IN  IF day > md THEN MonthlyScan(item, now, year, month + 1, i + 1)
             ELSE IF t > now THEN t
             ELSE MonthlyScan(item, now, year, month + 1, i + 1)

\* The Daily candidate kept for today when it equals now.
DailyNextAtNow(item, now) ==
    LET candidate == timegm_compat([gmtime(now) EXCEPT !.tm_hour = item.hour,
                                                       !.tm_min = item.minute,
                                                       !.tm_sec = item.second])
    IN  IF candidate < now THEN candidate + 24 * 3600 ELSE candidate

\* The Daily rule: the date of now with the alarm's time of day, a day later
\* when that is not after now.
DailyNext(item, now) ==
    LET candidate == timegm_compat([gmtime(now) EXCEPT !.tm_hour = item.hour,
                                                       !.tm_min = item.minute,
                                                       !.tm_sec = item.second])
    IN  IF candidate <= now THEN candidate + 24 * 3600 ELSE candidate

\* The Interval rule counting an elapsed trigger on from the trigger instead
\* of from now.
IntervalNextFromTrigger(item, now) ==
    IF item.next_trigger = 0 THEN now + EffectiveInterval(item)
    ELSE IF item.next_trigger <= now
         THEN item.next_trigger + EffectiveInterval(item)
         ELSE item.next_trigger

\* The Interval rule: a trigger that was never set or has elapsed is set to
\* now + interval, a pending one is kept.
IntervalNext(item, now) ==
    IF item.next_trigger = 0 \/ item.next_trigger <= now
    THEN now + EffectiveInterval(item)
    ELSE item.next_trigger

\* AlarmManager::RecalculateNextTrigger(item, now): the item as it is left.
RecalculateNextTrigger(item, now) ==
    IF ~item.enabled THEN [item EXCEPT !.next_trigger = 0]
    ELSE
    LET tm_now == gmtime(now) IN
    CASE item.type = "OneShot" ->
           LET t == MakeTimeUTC(item.year, item.month, item.day,
                                item.hour, item.minute, item.second)
           IN  IF t <= now
               THEN [item EXCEPT !.enabled = FALSE, !.next_trigger = 0]
               ELSE [item EXCEPT !.next_trigger = t]
      [] item.type = "Daily" ->
           [item EXCEPT !.next_trigger = DailyNext(item, now)]
      [] item.type = "Weekly" ->
           [item EXCEPT !.next_trigger = WeeklyScan(item, now, 0)]
      [] item.type = "Monthly" ->
           [item EXCEPT !.next_trigger =
                MonthlyScan(item, now, tm_now.tm_year + 1900, tm_now.tm_mon + 1, 0)]
      [] item.type = "Interval" ->
           [item EXCEPT !.next_trigger = IntervalNext(item, now)]

(***************************************************************************)
(* Bounds of the model and the inputs the operations are called with       *)
(***************************************************************************)

\* records the store holds at most (AddAlarm is not called beyond it)
MaxAlarms == 2
\* largest id AddAlarm hands out in the model
MaxId == 2
\* seconds after Base at which the clock of the model stops advancing
Horizon == 22
\* side effects waiting in the application's queue at most
MaxQueue == 6

\* The instant the model starts at: Friday 2025-01-31 06:59:50 UTC.
Base == SecondsOf([tm_year |-> 125, tm_mon |-> 0, tm_mday |-> 31,
                   tm_hour |-> 6, tm_min |-> 59, tm_sec |-> 50])

\* Amounts of seconds the clock advances by in one step.
Deltas == {10, 11}

\* AlarmItem as the self.alarm.add tool builds it: enabled and next_trigger
\* keep the defaults of struct AlarmItem, every other field is an argument
\* within the range its Property declares.
Tpl(type, year, month, day, hour, minute, second, weekdays, interval, label) ==
    [id |-> 0, enabled |-> TRUE, type |-> type, year |-> year, month |-> month,
     day |-> day, hour |-> hour, minute |-> minute, second |-> second,
     weekdays_mask |-> weekdays, interval_seconds |-> interval,
     label |-> label, next_trigger |-> 0]

Templates ==
    { Tpl("OneShot",  2025, 1, 31, 7, 0, 0,   0, 1,  "meds"),   \* Base + 10
      Tpl("Daily",    2025, 1, 31, 7, 0, 0,   0, 1,  "wake"),   \* Base + 10
      Tpl("Weekly",   2025, 1, 31, 7, 0, 10, 16, 1,  "gym"),    \* Fri, Base + 20
      Tpl("Monthly",  2025, 1, 31, 7, 0, 10,  0, 1,  "rent"),   \* Base + 20
      Tpl("Interval", 2025, 1, 31, 0, 0, 0,   0, 10, "tea") }   \* every 10 s


(***************************************************************************)
(* State                                                                   *)
(***************************************************************************)

VARIABLES
    now,            \* time(nullptr)
    alarms_,        \* std::vector<AlarmItem>
    next_id_,       \* int next_id_
    timer_,         \* esp_timer_handle_t timer_ and the state of that timer
    settings_list,  \* Settings("alarm") key "list"
    mutex_,         \* std::mutex mutex_: "free" or the context holding it
    pc,             \* where the calling context and the timer task are
    tools,          \* AddMcpTools has registered the tools
    app_queue,      \* work handed to the application, not yet performed
    last,           \* the operation the step just taken completed, if any
    returned        \* ids AddAlarm has returned since the process started, in order

vars == <<now, alarms_, next_id_, timer_, settings_list, mutex_, pc, tools,
          app_queue, last, returned, long_wraps>>

Range(s) == {s[i] : i \in 1..Len(s)}

Ids(alarms) == {alarms[i].id : i \in 1..Len(alarms)}

\* ids RemoveAlarm and EnableAlarm are called with: the ids of the store and
\* one id that no record has (AddAlarm hands out no id above MaxId)
CallIds(alarms) == Ids(alarms) \cup {MaxId + 1}

NoTimer == [created |-> FALSE, active |-> FALSE, soonest |-> 0, expiry |-> 0,
            target |-> 0]

\* What a step records: the operation it completed, the argument it was
\* called with, what it returned, the ids of the records it fired, and the
\* side effects its context performed itself.
Step(op, arg, ret, fired, inline) ==
    [op |-> op, arg |-> arg, ret |-> ret, fired |-> fired, inline |-> inline]

\* The step completed no operation.
NoStep == Step("none", 0, 0, <<>>, <<>>)

(***************************************************************************)
(* Persistence: the JSON text stored under key "list"                      *)
(***************************************************************************)

AlarmTypeToString(t) ==
    CASE t = "OneShot" -> "once"
      [] t = "Daily" -> "daily"
      [] t = "Weekly" -> "weekly"
      [] t = "Monthly" -> "monthly"
      [] t = "Interval" -> "interval"
      [] OTHER -> "unknown"

ParseAlarmType(s) ==
    CASE s = "once" -> "OneShot"
      [] s = "daily" -> "Daily"
      [] s = "weekly" -> "Weekly"
      [] s = "monthly" -> "Monthly"
      [] s = "interval" -> "Interval"
      [] OTHER -> "OneShot"

\* The stored value: the empty string (nothing was ever saved), or the text
\* of a JSON array, held as the sequence of its objects.
EmptyString == [kind |-> "empty", items |-> <<>>]

\* The JSON object SaveToSettings writes for one alarm; the key "interval"
\* is written for an Interval alarm only.
AlarmToJson(alarm) ==
    LET base == [id |-> alarm.id, enabled |-> alarm.enabled,
                 type |-> AlarmTypeToString(alarm.type), year |-> alarm.year,
                 month |-> alarm.month, day |-> alarm.day, hour |-> alarm.hour,
                 minute |-> alarm.minute, second |-> alarm.second,
                 weekdays |-> alarm.weekdays_mask, label |-> alarm.label]
    IN  IF alarm.type = "Interval"
        THEN base @@ [interval |-> alarm.interval_seconds]
        ELSE base

\* Saving every record, disabled ones too.
SavedAll(alarm) == TRUE

\* if (alarm.enabled == false) continue;
Saved(alarm) == alarm.enabled

\* AlarmManager::SaveToSettings: the value written under "list".
SaveToSettings(alarms) ==
    LET kept == SelectSeq(alarms, Saved)
    IN  [kind |-> "array",
         items |-> [i \in 1..Len(kept) |-> AlarmToJson(kept[i])]]

\* Loading without the key "second", as a list without seconds is read.
JsonToAlarmNoSecond(item) ==
    [id |-> item.id, enabled |-> item.enabled,
     type |-> ParseAlarmType(item.type), year |-> item.year,
     month |-> item.month, day |-> item.day, hour |-> item.hour,
     minute |-> item.minute, second |-> 0,
     weekdays_mask |-> IF "weekdays" \in DOMAIN item
                       THEN item.weekdays % 65536 ELSE 0,
     interval_seconds |-> IF "interval" \in DOMAIN item
                          THEN item.interval ELSE 0,
     label |-> IF "label" \in DOMAIN item THEN item.label ELSE "",
     next_trigger |-> 0]

\* One object of the array as LoadFromSettings reads it into an AlarmItem:
\* "second", "weekdays", "interval" and "label" are optional, next_trigger
\* keeps the default of the struct.
JsonToAlarm(item) ==
    [id |-> item.id, enabled |-> item.enabled,
     type |-> ParseAlarmType(item.type), year |-> item.year,
     month |-> item.month, day |-> item.day, hour |-> item.hour,
     minute |-> item.minute,
     second |-> IF "second" \in DOMAIN item THEN item.second ELSE 0,
     weekdays_mask |-> IF "weekdays" \in DOMAIN item
                       THEN item.weekdays % 65536 ELSE 0,
     interval_seconds |-> IF "interval" \in DOMAIN item
                          THEN item.interval ELSE 0,
     label |-> IF "label" \in DOMAIN item THEN item.label ELSE "",
     next_trigger |-> 0]

\* next_id_ taken from the number of records loaded instead of their ids.
MaxNextIdCount(next_id, alarms, i) ==
    Len(alarms) + 1

\* next_id_ = std::max(next_id_, alarm.id + 1) over the loaded records
RECURSIVE MaxNextId(_, _, _)
MaxNextId(next_id, alarms, i) ==
    IF i > Len(alarms) THEN next_id
    ELSE MaxNextId(IF alarms[i].id + 1 > next_id THEN alarms[i].id + 1
                   ELSE next_id,
                   alarms, i + 1)

\* AlarmManager::LoadFromSettings: the store and next_id_ as it leaves them.
LoadFromSettings(list, alarms, next_id) ==
    IF list.kind # "array" THEN [alarms |-> alarms, next_id |-> next_id]
    ELSE LET loaded == [i \in 1..Len(list.items) |-> JsonToAlarm(list.items[i])]
         IN  [alarms |-> loaded, next_id |-> MaxNextId(next_id, loaded, 1)]

(***************************************************************************)
(* Scheduler                                                               *)
(***************************************************************************)

\* the fixed second added to every delay (delay + 1000000 microseconds)
SafetyMargin == 1

RecalculateAllNextTriggers(alarms, t) ==
    [i \in 1..Len(alarms) |-> RecalculateNextTrigger(alarms[i], t)]

\* if (!a.enabled || a.next_trigger == 0) continue;
Schedulable(a) == a.enabled /\ a.next_trigger # 0

\* The scan with the comparison turned round: it keeps the latest trigger.
RECURSIVE ScanLatest(_, _, _, _)
ScanLatest(alarms, i, soonest, target) ==
    IF i > Len(alarms) THEN [soonest |-> soonest, target |-> target]
    ELSE IF Schedulable(alarms[i])
            /\ (soonest = 0 \/ alarms[i].next_trigger > soonest)
         THEN ScanLatest(alarms, i + 1, alarms[i].next_trigger, i)
         ELSE ScanLatest(alarms, i + 1, soonest, target)

\* The scan of ScheduleTimer and of NextAlarmJson: the soonest trigger and
\* the index of the first record having it; target 0 when no record counts.
RECURSIVE ScanSoonest(_, _, _, _)
ScanSoonest(alarms, i, soonest, target) ==
    IF i > Len(alarms) THEN [soonest |-> soonest, target |-> target]
    ELSE IF Schedulable(alarms[i])
            /\ (soonest = 0 \/ alarms[i].next_trigger < soonest)
         THEN ScanSoonest(alarms, i + 1, alarms[i].next_trigger, i)
         ELSE ScanSoonest(alarms, i + 1, soonest, target)

\* ScheduleTimer without the esp_timer_stop: with no target the timer is
\* left as it was.
ScheduleTimerNoStop(alarms, timer, t) ==
    LET scan == ScanSoonest(alarms, 1, 0, 0)
    IN  IF scan.target = 0 THEN timer
        ELSE [created |-> TRUE, active |-> TRUE, soonest |-> scan.soonest,
              expiry |-> (IF scan.soonest > t THEN scan.soonest ELSE t)
                         + SafetyMargin,
              target |-> alarms[scan.target].id]

\* AlarmManager::ScheduleTimer: the timer as it is left. A created timer is
\* stopped first; with no target it stays stopped; otherwise it is started
\* once for max(soonest - now, 1 ms) plus the safety margin, so at whole
\* seconds it expires at max(soonest, now) + SafetyMargin.
ScheduleTimer(alarms, timer, t) ==
    LET scan    == ScanSoonest(alarms, 1, 0, 0)
        stopped == IF timer.created
                   THEN [NoTimer EXCEPT !.created = TRUE]
                   ELSE timer
    IN  IF scan.target = 0 THEN stopped
        ELSE [created |-> TRUE, active |-> TRUE, soonest |-> scan.soonest,
              expiry |-> (IF scan.soonest > t THEN scan.soonest ELSE t)
                         + SafetyMargin,
              target |-> alarms[scan.target].id]

(***************************************************************************)
(* Firing                                                                  *)
(***************************************************************************)

\* The due test of a handler that trusts the timer: every pending record
\* counts, whatever the clock reads.
IsDuePending(a, t) == a.enabled /\ a.next_trigger # 0

\* The due test with < in place of <=.
IsDueStrict(a, t) == a.enabled /\ a.next_trigger # 0 /\ a.next_trigger < t

\* if (a.enabled && a.next_trigger && a.next_trigger <= now)
IsDue(a, t) == a.enabled /\ a.next_trigger # 0 /\ a.next_trigger <= t

\* Advance with the Interval counted from the trigger that fired instead of
\* from now.
AdvanceFromTrigger(a, t) ==
    IF a.type = "OneShot" THEN [a EXCEPT !.enabled = FALSE, !.next_trigger = 0]
    ELSE IF a.type = "Interval"
         THEN [a EXCEPT !.next_trigger =
                   a.next_trigger
                   + (IF a.interval_seconds > 0 THEN a.interval_seconds ELSE 60)]
         ELSE RecalculateNextTrigger(a, t + 1)

\* The record a fired alarm is advanced to.
Advance(a, t) ==
    IF a.type = "OneShot" THEN [a EXCEPT !.enabled = FALSE, !.next_trigger = 0]
    ELSE IF a.type = "Interval"
         THEN [a EXCEPT !.next_trigger =
                   t + (IF a.interval_seconds > 0 THEN a.interval_seconds ELSE 60)]
         ELSE RecalculateNextTrigger(a, t + 1)

\* The handler calling the display itself instead of handing the chat
\* message to Application::Schedule.
FireCallsDirectDisplay(a) ==
    << [fn |-> "Application::PlaySound", what |-> "sound", label |-> a.label],
       [fn |-> "Display::SetChatMessage", what |-> "display", label |-> a.label],
       [fn |-> "Application::RequestTts", what |-> "tts", label |-> a.label] >>

\* The calls the handler makes for one fired alarm, in order: the sound, the
\* chat message wrapped in a task handed to Application::Schedule, and the
\* follow-up request. (The text shown is "HH:MM:SS <label>"; the model keeps
\* the label.)
FireCalls(a) ==
    << [fn |-> "Application::PlaySound", what |-> "sound", label |-> a.label],
       [fn |-> "Application::Schedule", what |-> "display", label |-> a.label],
       [fn |-> "Application::RequestTts", what |-> "tts", label |-> a.label] >>

\* Application hands the work of its entry points to its own context; any
\* other call is performed by the caller, where it is made.
Deferred(call) ==
    call.fn \in {"Application::PlaySound", "Application::Schedule",
                 "Application::RequestTts"}

\* What the application's queue holds of a call: the kind of work.
Effect(call) == call.what

RECURSIVE Flatten(_)
Flatten(ss) == IF ss = <<>> THEN <<>> ELSE Head(ss) \o Flatten(Tail(ss))

\* The calls of one handler run, over the records due at t in store order.
HandlerCalls(alarms, t) ==
    LET due == SelectSeq(alarms, LAMBDA a : IsDue(a, t))
    IN  Flatten([i \in 1..Len(due) |-> FireCalls(due[i])])

(***************************************************************************)
(* Read-only projections                                                   *)
(***************************************************************************)

\* One summary of ListAlarmsJson.
AlarmSummary(a) ==
    LET base == [id |-> a.id, enabled |-> a.enabled,
                 type |-> AlarmTypeToString(a.type), hour |-> a.hour,
                 minute |-> a.minute, second |-> a.second, day |-> a.day,
                 month |-> a.month, year |-> a.year,
                 weekdays |-> a.weekdays_mask, next |-> a.next_trigger,
                 label |-> a.label]
    IN  IF a.type = "Interval" THEN base @@ [interval |-> a.interval_seconds]
        ELSE base

ListAlarmsJson(alarms) ==
    [i \in 1..Len(alarms) |-> AlarmSummary(alarms[i])]

\* The scan with <= in place of <: of the records that share the soonest
\* trigger it keeps the last.
RECURSIVE ScanLastTie(_, _, _, _)
ScanLastTie(alarms, i, soonest, target) ==
    IF i > Len(alarms) THEN [soonest |-> soonest, target |-> target]
    ELSE IF Schedulable(alarms[i])
            /\ (soonest = 0 \/ alarms[i].next_trigger <= soonest)
         THEN ScanLastTie(alarms, i + 1, alarms[i].next_trigger, i)
         ELSE ScanLastTie(alarms, i + 1, soonest, target)

\* NextAlarmJson scanning with <=.
NextAlarmJsonLastTie(alarms) ==
    LET scan == ScanLastTie(alarms, 1, 0, 0)
        a    == alarms[scan.target]
        base == [kind |-> "alarm", id |-> a.id,
                 type |-> AlarmTypeToString(a.type), hour |-> a.hour,
                 minute |-> a.minute, second |-> a.second, label |-> a.label,
                 time |-> a.next_trigger]
    IN  IF scan.target = 0 THEN [kind |-> "empty"]
        ELSE IF a.type = "Interval"
             THEN base @@ [interval |-> a.interval_seconds]
             ELSE base

\* NextAlarmJson: "{}" when the scan finds no target.
NextAlarmJson(alarms) ==
    LET scan == ScanSoonest(alarms, 1, 0, 0)
        a    == alarms[scan.target]
        base == [kind |-> "alarm", id |-> a.id,
                 type |-> AlarmTypeToString(a.type), hour |-> a.hour,
                 minute |-> a.minute, second |-> a.second, label |-> a.label,
                 time |-> a.next_trigger]
    IN  IF scan.target = 0 THEN [kind |-> "empty"]
        ELSE IF a.type = "Interval"
             THEN base @@ [interval |-> a.interval_seconds]
             ELSE base

(***************************************************************************)
(* The program                                                             *)
(***************************************************************************)

\* The state after construction of the singleton on a device that has never
\* saved a list.
Init ==
    /\ now = Base
    /\ alarms_ = <<>>
    /\ next_id_ = 1
    /\ timer_ = NoTimer
    /\ settings_list = EmptyString
    /\ mutex_ = "free"
    /\ pc = [caller |-> "idle", timer |-> "idle"]
    /\ tools = FALSE
    /\ app_queue = <<>>
    /\ last = NoStep
    /\ returned = <<>>
    /\ long_wraps \in LongOverflowOutcomes

\* A lock that is taken without waiting for it to be free.
LockNoWait(ctx) ==
    mutex_' = ctx

\* std::lock_guard<std::mutex> lk(mutex_): the context waits until the mutex
\* is free and takes it.
Lock(ctx) ==
    /\ mutex_ = "free"
    /\ mutex_' = ctx

\* The calling context enters an operation of the manager: the first
\* statement of each of them takes the lock.
Call ==
    /\ pc.caller = "idle"
    /\ Lock("caller")
    /\ pc' = [pc EXCEPT !.caller = "locked"]
    /\ last' = NoStep
    /\ UNCHANGED <<now, alarms_, next_id_, timer_, settings_list, tools,
                   app_queue, returned, long_wraps>>

\* The return of an operation of the calling context releases the lock.
Return(op, arg, ret) ==
    /\ mutex_' = "free"
    /\ pc' = [pc EXCEPT !.caller = "idle"]
    /\ last' = Step(op, arg, ret, <<>>, <<>>)

Initialize ==
    /\ pc.caller = "locked"
    /\ ~tools
    /\ LET loaded == LoadFromSettings(settings_list, alarms_, next_id_)
           recalc == RecalculateAllNextTriggers(loaded.alarms, now)
       IN  /\ alarms_' = recalc
           /\ next_id_' = loaded.next_id
           /\ timer_' = ScheduleTimer(recalc, timer_, now)
    /\ tools' = TRUE
    /\ Return("Initialize", 0, TRUE)
    /\ UNCHANGED <<now, settings_list, app_queue, returned, long_wraps>>

AddAlarm ==
    /\ pc.caller = "locked"
    /\ tools
    /\ Len(alarms_) < MaxAlarms
    /\ next_id_ <= MaxId
    /\ \E tpl \in Templates :
        LET item   == RecalculateNextTrigger([tpl EXCEPT !.id = next_id_], now)
            alarms == Append(alarms_, item)
        IN  /\ next_id_' = next_id_ + 1
            /\ alarms_' = alarms
            /\ settings_list' = SaveToSettings(alarms)
            /\ timer_' = ScheduleTimer(alarms, timer_, now)
            /\ returned' = Append(returned, item.id)
            /\ Return("AddAlarm", 0, item.id)
    /\ UNCHANGED <<now, tools, app_queue, long_wraps>>

\* RemoveAlarm that re-arms the timer also when it found no record.
RemoveAlarmAlwaysRearm ==
    /\ pc.caller = "locked"
    /\ tools
    /\ \E id \in CallIds(alarms_) :
        LET alarms == SelectSeq(alarms_, LAMBDA a : a.id # id)
        IN  /\ alarms_' = alarms
            /\ settings_list' = IF Len(alarms) = Len(alarms_) THEN settings_list
                                ELSE SaveToSettings(alarms)
            /\ timer_' = ScheduleTimer(alarms, timer_, now)
            /\ mutex_' = "free"
            /\ pc' = [pc EXCEPT !.caller = "idle"]
            /\ last' = Step("RemoveAlarm", id, Len(alarms) # Len(alarms_),
                            <<>>, <<>>)
    /\ UNCHANGED <<now, next_id_, tools, app_queue, returned, long_wraps>>

\* std::remove_if + erase: every record with the id goes, the order of the
\* others is kept.
RemoveAlarm ==
    /\ pc.caller = "locked"
    /\ tools
    /\ \E id \in CallIds(alarms_) :
        LET alarms == SelectSeq(alarms_, LAMBDA a : a.id # id)
        IN  IF Len(alarms) = Len(alarms_)
            THEN /\ Return("RemoveAlarm", id, FALSE)
                 /\ UNCHANGED <<alarms_, settings_list, timer_>>
            ELSE /\ alarms_' = alarms
                 /\ settings_list' = SaveToSettings(alarms)
                 /\ timer_' = ScheduleTimer(alarms, timer_, now)
                 /\ Return("RemoveAlarm", id, TRUE)
    /\ UNCHANGED <<now, next_id_, tools, app_queue, returned, long_wraps>>

\* The first record with the id, 0 when there is none.
RECURSIVE FindId(_, _, _)
FindId(alarms, id, i) ==
    IF i > Len(alarms) THEN 0
    ELSE IF alarms[i].id = id THEN i
    ELSE FindId(alarms, id, i + 1)

\* SetEnabled that leaves the trigger of a disabled record as it was.
SetEnabledKeepTrigger(a, enable, t) ==
    IF enable THEN RecalculateNextTrigger([a EXCEPT !.enabled = TRUE], t)
    ELSE [a EXCEPT !.enabled = FALSE]

\* a.enabled = enable; then the trigger is recalculated or zeroed
SetEnabled(a, enable, t) ==
    IF enable THEN RecalculateNextTrigger([a EXCEPT !.enabled = TRUE], t)
    ELSE [a EXCEPT !.enabled = FALSE, !.next_trigger = 0]

EnableAlarm ==
    /\ pc.caller = "locked"
    /\ tools
    /\ \E id \in CallIds(alarms_), enable \in BOOLEAN :
        LET i == FindId(alarms_, id, 1)
        IN  IF i = 0
            THEN /\ Return("EnableAlarm", [id |-> id, enable |-> enable], FALSE)
                 /\ UNCHANGED <<alarms_, settings_list, timer_>>
            ELSE LET alarms == [alarms_ EXCEPT
                                   ![i] = SetEnabled(alarms_[i], enable, now)]
                 IN  /\ alarms_' = alarms
                     /\ settings_list' = SaveToSettings(alarms)
                     /\ timer_' = ScheduleTimer(alarms, timer_, now)
                     /\ Return("EnableAlarm", [id |-> id, enable |-> enable], TRUE)
    /\ UNCHANGED <<now, next_id_, tools, app_queue, returned, long_wraps>>

\* ClearAlarms that also starts the ids over.
ClearAlarmsResetIds ==
    /\ pc.caller = "locked"
    /\ tools
    /\ alarms_' = <<>>
    /\ next_id_' = 1
    /\ settings_list' = SaveToSettings(<<>>)
    /\ timer_' = ScheduleTimer(<<>>, timer_, now)
    /\ mutex_' = "free"
    /\ pc' = [pc EXCEPT !.caller = "idle"]
    /\ last' = Step("ClearAlarms", 0, TRUE, <<>>, <<>>)
    /\ UNCHANGED <<now, tools, app_queue, returned, long_wraps>>

ClearAlarms ==
    /\ pc.caller = "locked"
    /\ tools
    /\ alarms_' = <<>>
    /\ settings_list' = SaveToSettings(<<>>)
    /\ timer_' = ScheduleTimer(<<>>, timer_, now)
    /\ Return("ClearAlarms", 0, TRUE)
    /\ UNCHANGED <<now, next_id_, tools, app_queue, returned, long_wraps>>

ListAlarms ==
    /\ pc.caller = "locked"
    /\ tools
    /\ Return("ListAlarmsJson", 0, ListAlarmsJson(alarms_))
    /\ UNCHANGED <<now, alarms_, next_id_, timer_, settings_list, tools,
                   app_queue, returned, long_wraps>>

NextAlarm ==
    /\ pc.caller = "locked"
    /\ tools
    /\ Return("NextAlarmJson", 0, NextAlarmJson(alarms_))
    /\ UNCHANGED <<now, alarms_, next_id_, timer_, settings_list, tools,
                   app_queue, returned, long_wraps>>

\* The one-shot esp_timer reaches its expiry: it is no longer running and the
\* timer task is given the callback. The task runs one callback at a time.
TimerExpire ==
    /\ timer_.active
    /\ now >= timer_.expiry
    /\ pc.timer = "idle"
    /\ Len(app_queue) + 3 * Len(alarms_) <= MaxQueue
    /\ timer_' = [NoTimer EXCEPT !.created = TRUE]
    /\ pc' = [pc EXCEPT !.timer = "dispatched"]
    /\ last' = NoStep
    /\ UNCHANGED <<now, alarms_, next_id_, settings_list, mutex_, tools,
                   app_queue, returned, long_wraps>>

\* The callback enters OnTimerFired: its first statement takes the lock.
TimerCallback ==
    /\ pc.timer = "dispatched"
    /\ Lock("timer")
    /\ pc' = [pc EXCEPT !.timer = "OnTimerFired"]
    /\ last' = NoStep
    /\ UNCHANGED <<now, alarms_, next_id_, timer_, settings_list, tools,
                   app_queue, returned, long_wraps>>

\* AlarmManager::OnTimerFired, from the read of the clock to the return.
OnTimerFired ==
    /\ pc.timer = "OnTimerFired"
    /\ LET alarms == [i \in 1..Len(alarms_) |->
                         IF IsDue(alarms_[i], now)
                         THEN Advance(alarms_[i], now) ELSE alarms_[i]]
           due    == SelectSeq(alarms_, LAMBDA a : IsDue(a, now))
           calls  == HandlerCalls(alarms_, now)
           posted == SelectSeq(calls, Deferred)
           direct == SelectSeq(calls, LAMBDA c : ~Deferred(c))
       IN  /\ alarms_' = alarms
           /\ app_queue' = app_queue
                           \o [i \in 1..Len(posted) |-> Effect(posted[i])]
           /\ settings_list' = SaveToSettings(alarms)
           /\ timer_' = ScheduleTimer(alarms, timer_, now)
           /\ last' = Step("OnTimerFired", 0, 0,
                           [i \in 1..Len(due) |-> due[i].id],
                           [i \in 1..Len(direct) |-> Effect(direct[i])])
    /\ mutex_' = "free"
    /\ pc' = [pc EXCEPT !.timer = "idle"]
    /\ UNCHANGED <<now, next_id_, tools, returned, long_wraps>>

\* The application's own context performs the work handed to it.
AppRun ==
    /\ app_queue # <<>>
    /\ app_queue' = <<>>
    /\ last' = Step("AppRun", 0, 0, <<>>, app_queue)
    /\ UNCHANGED <<now, alarms_, next_id_, timer_, settings_list, mutex_, pc,
                   tools, returned, long_wraps>>

\* The clock advances.
Tick ==
    /\ \E d \in Deltas :
        /\ now + d <= Base + Horizon
        /\ now' = now + d
    /\ last' = NoStep
    /\ UNCHANGED <<alarms_, next_id_, timer_, settings_list, mutex_, pc,
                   tools, app_queue, returned, long_wraps>>

\* The device restarts: memory is as after construction, the stored list and
\* the clock are kept.
Reboot ==
    /\ alarms_' = <<>>
    /\ next_id_' = 1
    /\ timer_' = NoTimer
    /\ mutex_' = "free"
    /\ pc' = [caller |-> "idle", timer |-> "idle"]
    /\ tools' = FALSE
    /\ app_queue' = <<>>
    /\ returned' = <<>>
    /\ last' = NoStep
    /\ UNCHANGED <<now, settings_list, long_wraps>>

Next ==
    \/ Call
    \/ Initialize
    \/ AddAlarm
    \/ RemoveAlarm
    \/ EnableAlarm
    \/ ClearAlarms
    \/ ListAlarms
    \/ NextAlarm
    \/ TimerExpire
    \/ TimerCallback
    \/ OnTimerFired
    \/ AppRun
    \/ Tick
    \/ Reboot

Spec == Init /\ [][Next]_vars

(***************************************************************************)
(* The recurrence engine on one record                                     *)
(***************************************************************************)

\* The instant of a UTC date and time of day before 2038.
At(year, month, day, hour, minute, second) ==
    SecondsOf([tm_year |-> year - 1900, tm_mon |-> month - 1, tm_mday |-> day,
               tm_hour |-> hour, tm_min |-> minute, tm_sec |-> second])

\* Instants the clock is read at.
RecalcNows ==
    { At(2024, 2, 10, 12, 0, 0),      \* Saturday, February of a leap year
      At(2025, 1, 31, 6, 59, 50),     \* Friday
      At(2025, 1, 31, 7, 0, 0),
      At(2025, 1, 31, 7, 0, 20),
      At(2025, 1, 31, 7, 5, 0),
      At(2025, 2, 2, 7, 0, 0),        \* Sunday
      At(2025, 2, 10, 12, 0, 0),      \* Monday, February of a common year
      At(2025, 12, 31, 23, 59, 59) }  \* Wednesday, last second of a year

\* Records the engine is applied to: the arguments of the self.alarm.add tool
\* within their Property ranges, and beside them a Monthly day no month has
\* and the interval_seconds 0 of struct AlarmItem.
RecalcItems ==
    { Tpl("OneShot", 2025, 1, 31, 7, 0, 0, 0, 1, "once"),
      Tpl("OneShot", 2025, 1, 31, 6, 59, 50, 0, 1, "once"),
      Tpl("OneShot", 2024, 6, 1, 0, 0, 0, 0, 1, "once"),
      Tpl("OneShot", 2025, 2, 30, 12, 0, 0, 0, 1, "once"),
      Tpl("OneShot", 2037, 12, 31, 23, 59, 59, 0, 1, "once"),
      Tpl("OneShot", 2040, 1, 1, 0, 0, 0, 0, 1, "once") }
    \cup
    { Tpl("Daily", 2025, 1, 1, hms[1], hms[2], hms[3], 0, 1, "daily") :
        hms \in {<<7, 0, 0>>, <<6, 59, 50>>, <<0, 0, 0>>, <<23, 59, 59>>} }
    \cup
    { Tpl("Weekly", 2025, 1, 1, wk[2], wk[3], wk[4], wk[1], 1, "weekly") :
        wk \in {<<0, 7, 0, 0>>, <<16, 7, 0, 0>>, <<16, 6, 59, 50>>,
                <<64, 7, 0, 0>>, <<17, 7, 0, 0>>, <<1, 0, 0, 0>>,
                <<127, 23, 59, 59>>, <<96, 12, 0, 0>>} }
    \cup
    { Tpl("Monthly", 2025, 1, md[1], md[2], md[3], md[4], 0, 1, "monthly") :
        md \in {<<1, 7, 0, 0>>, <<29, 7, 0, 0>>, <<30, 7, 0, 0>>,
                <<31, 7, 0, 0>>, <<31, 6, 59, 50>>, <<10, 12, 0, 0>>,
                <<32, 7, 0, 0>>} }
    \cup
    { Tpl("Interval", 2025, 1, 1, 0, 0, 0, 0, k, "interval") :
        k \in {0, 1, 30, 86400} }

\* One record in the store: AddAlarm has given it the id 1 and has not yet
\* recalculated it.
RecalcInit ==
    /\ now \in RecalcNows
    /\ \E tpl \in RecalcItems : alarms_ = << [tpl EXCEPT !.id = 1] >>
    /\ next_id_ = 2
    /\ timer_ = NoTimer
    /\ settings_list = EmptyString
    /\ mutex_ = "free"
    /\ pc = [caller |-> "idle", timer |-> "idle"]
    /\ tools = TRUE
    /\ app_queue = <<>>
    /\ last = NoStep
    /\ returned = <<1>>
    /\ long_wraps \in LongOverflowOutcomes

\* RecalculateNextTrigger(item, now) applied to the record; the step records
\* the record it was applied to.
Recalculate ==
    /\ alarms_' = << RecalculateNextTrigger(alarms_[1], now) >>
    /\ last' = Step("Recalculate", alarms_[1], 0, <<>>, <<>>)
    /\ UNCHANGED <<now, next_id_, timer_, settings_list, mutex_, pc, tools,
                   app_queue, returned, long_wraps>>

\* a.enabled = true; RecalculateNextTrigger(a, time(nullptr)) on a record
\* that is disabled.
Reenable ==
    /\ ~alarms_[1].enabled
    /\ alarms_' = << SetEnabled(alarms_[1], TRUE, now) >>
    /\ last' = Step("Reenable", alarms_[1], 0, <<>>, <<>>)
    /\ UNCHANGED <<now, next_id_, timer_, settings_list, mutex_, pc, tools,
                   app_queue, returned, long_wraps>>

\* a.enabled = false; a.next_trigger = 0 on a record that is enabled.
Disable ==
    /\ alarms_[1].enabled
    /\ alarms_' = << SetEnabled(alarms_[1], FALSE, now) >>
    /\ last' = Step("Disable", alarms_[1], 0, <<>>, <<>>)
    /\ UNCHANGED <<now, next_id_, timer_, settings_list, mutex_, pc, tools,
                   app_queue, returned, long_wraps>>

\* The handler finds the record due and advances it.
FireRecord ==
    /\ IsDue(alarms_[1], now)
    /\ alarms_' = << Advance(alarms_[1], now) >>
    /\ last' = Step("Advance", alarms_[1], 0, <<alarms_[1].id>>, <<>>)
    /\ UNCHANGED <<now, next_id_, timer_, settings_list, mutex_, pc, tools,
                   app_queue, returned, long_wraps>>

\* The clock is read at a later instant.
ClockJump ==
    /\ \E t \in RecalcNows : t > now /\ now' = t
    /\ last' = NoStep
    /\ UNCHANGED <<alarms_, next_id_, timer_, settings_list, mutex_, pc, tools,
                   app_queue, returned, long_wraps>>

RecalcNext ==
    \/ Recalculate
    \/ Reenable
    \/ Disable
    \/ FireRecord
    \/ ClockJump

RecalcSpec == RecalcInit /\ [][RecalcNext]_vars

(***************************************************************************)
(* Properties                                                              *)
(***************************************************************************)

\* The enabled records with a nonzero next_trigger.
Pending == {a \in Range(alarms_) : a.enabled /\ a.next_trigger # 0}

\* The scheduler is Idle iff nothing is pending; armed, it is armed for the
\* least pending trigger.
SchedulerConsistent ==
    /\ timer_.active <=> Pending # {}
    /\ timer_.active =>
         /\ \E a \in Pending : a.next_trigger = timer_.soonest
         /\ \A a \in Pending : timer_.soonest <= a.next_trigger

\* The step just taken was one of the operations that end in ScheduleTimer.
Rearmed ==
    \/ last.op \in {"Initialize", "AddAlarm", "ClearAlarms", "OnTimerFired"}
    \/ last.op \in {"RemoveAlarm", "EnableAlarm"} /\ last.ret = TRUE

\* C1, as stated: after every completed Initialize, AddAlarm, RemoveAlarm,
\* EnableAlarm, ClearAlarms and OnTimerFired the timer runs iff a record is
\* pending, and it is armed for the least pending trigger.
C1_AfterEveryOperation ==
    last.op \in {"Initialize", "AddAlarm", "RemoveAlarm", "EnableAlarm",
                 "ClearAlarms", "OnTimerFired"}
        => SchedulerConsistent

\* C1, amended: the same after every completed Initialize, AddAlarm,
\* ClearAlarms and OnTimerFired and after every RemoveAlarm and EnableAlarm
\* that found its id (one that did not find it does not re-arm, so it leaves
\* an expired timer idle until the pending callback has run).
C1_AfterRearm ==
    Rearmed => SchedulerConsistent

\* C1 witness: an added second record leaves the timer armed for the sooner
\* of two different pending triggers.
C1_Witness ==
    /\ last.op = "AddAlarm"
    /\ Len(alarms_) = 2
    /\ alarms_[1] \in Pending /\ alarms_[2] \in Pending
    /\ alarms_[2].next_trigger < alarms_[1].next_trigger
    /\ timer_.active /\ timer_.soonest = alarms_[2].next_trigger

\* A step that is one whole run of the firing handler.
FiringStep ==
    pc.timer = "OnTimerFired" /\ pc'.timer = "idle" /\ last'.op = "OnTimerFired"

\* What the claim says a fired record becomes.
FiredRecord(a, t) ==
    CASE a.type = "OneShot" -> [a EXCEPT !.enabled = FALSE, !.next_trigger = 0]
      [] a.type = "Interval" ->
           [a EXCEPT !.next_trigger =
                t + (IF a.interval_seconds >= 1 THEN a.interval_seconds ELSE 60)]
      [] OTHER -> RecalculateNextTrigger(a, t + 1)

\* C2: in one run of OnTimerFired at instant now a record is fired (its side
\* effects handed over, the record advanced) iff it is enabled with a nonzero
\* next_trigger <= now; a fired OneShot is disabled with next_trigger 0, a
\* fired Interval gets now + effective interval, a fired Daily, Weekly or
\* Monthly gets Recalculate(record, now + 1); any other record is unchanged.
C2_FiringRule ==
    [][FiringStep =>
        /\ Len(alarms_') = Len(alarms_)
        /\ Len(app_queue') = Len(app_queue) + 3 * Len(last'.fired)
        /\ \A i \in 1..Len(alarms_) :
             LET a   == alarms_[i]
                 due == a.enabled /\ a.next_trigger # 0 /\ a.next_trigger <= now
             IN  /\ (a.id \in Range(last'.fired)) <=> due
                 /\ due => alarms_'[i] = FiredRecord(a, now)
                 /\ ~due => alarms_'[i] = a
    ]_vars

\* C2 witness: a run of the handler fired one record and left another, not
\* yet due, pending.
C2_Witness ==
    /\ last.op = "OnTimerFired"
    /\ Len(last.fired) = 1
    /\ Len(alarms_) = 2
    /\ \E a \in Pending : a.id \notin Range(last.fired) /\ a.next_trigger > now

\* A record keeps its id for as long as it is in the store.
RecordOf(alarms, id) == alarms[CHOOSE i \in 1..Len(alarms) : alarms[i].id = id]

\* C3: when a run of OnTimerFired at instant now completes no enabled record
\* has a nonzero next_trigger <= now, and every fired Daily, Weekly, Monthly
\* or Interval record has a next_trigger that is 0 or after now; and since no
\* step ever moves the next_trigger of a record to an instant that is not
\* after now, an instant that was fired does not come back.
C3_FiringProgress ==
    /\ [](last.op = "OnTimerFired" =>
            /\ \A a \in Range(alarms_) :
                 ~(a.enabled /\ a.next_trigger # 0 /\ a.next_trigger <= now)
            /\ \A a \in Range(alarms_) :
                 (a.id \in Range(last.fired) /\ a.type # "OneShot")
                     => (a.next_trigger = 0 \/ a.next_trigger > now))
    /\ [][now' >= now
          /\ \A id \in Ids(alarms_) \cap Ids(alarms_') :
               LET a == RecordOf(alarms_, id)
                   b == RecordOf(alarms_', id)
               IN  b.next_trigger # a.next_trigger
                       => (b.next_trigger = 0 \/ b.next_trigger > now')
       ]_vars

\* C3 witness: a run of the handler at the very instant of a recurring
\* record's trigger fired it and left it pending for a later instant.
C3_Witness ==
    /\ last.op = "OnTimerFired"
    /\ \E a \in Pending :
         a.id \in Range(last.fired) /\ a.type = "Interval"
         /\ a.next_trigger = now + 10

\* C4: a record that is not enabled has next_trigger 0, and the record the
\* timer is armed for is an enabled record of the store.
C4_DisabledHasNoTrigger ==
    /\ \A a \in Range(alarms_) : ~a.enabled => a.next_trigger = 0
    /\ timer_.active =>
         \E a \in Range(alarms_) :
             a.id = timer_.target /\ a.enabled
             /\ a.next_trigger = timer_.soonest

\* C4 witness: EnableAlarm(id, false) left a disabled record beside a
\* pending one the timer is armed for.
C4_Witness ==
    /\ last.op = "EnableAlarm" /\ last.ret = TRUE /\ ~last.arg.enable
    /\ \E a \in Range(alarms_) : a.id = last.arg.id /\ ~a.enabled
    /\ timer_.active

\* C5: no two records of the store share an id, and the ids AddAlarm has
\* returned since the process started are strictly increasing (so none is
\* returned twice, also after a removal or a clear) and differ from the id
\* of every record that was loaded.
C5_IdsUnique ==
    /\ \A i, j \in 1..Len(alarms_) : i # j => alarms_[i].id # alarms_[j].id
    /\ \A i, j \in 1..Len(returned) : i < j => returned[i] < returned[j]
    /\ last.op = "AddAlarm" =>
         /\ last.ret = returned[Len(returned)]
         /\ alarms_[Len(alarms_)].id = last.ret

\* C5 witness: a second id was returned after the record with the first id
\* was removed or cleared.
C5_Witness ==
    /\ last.op = "AddAlarm"
    /\ Len(returned) = 2
    /\ Len(alarms_) = 1

\* C6: the calling context (inside Initialize, AddAlarm, RemoveAlarm,
\* EnableAlarm, ClearAlarms, ListAlarmsJson or NextAlarmJson) and the timer
\* callback (inside OnTimerFired) are never inside at the same time, and
\* whichever is inside holds the one lock.
C6_MutualExclusion ==
    /\ ~(pc.caller = "locked" /\ pc.timer = "OnTimerFired")
    /\ pc.caller = "locked" => mutex_ = "caller"
    /\ pc.timer = "OnTimerFired" => mutex_ = "timer"
    /\ (pc.caller # "locked" /\ pc.timer # "OnTimerFired") => mutex_ = "free"

\* C6 witness: the callback has been dispatched and waits while the calling
\* context is inside an operation.
C6_Witness ==
    /\ pc.caller = "locked"
    /\ pc.timer = "dispatched"
    /\ mutex_ = "caller"

SavedStep ==
    \/ last.op \in {"AddAlarm", "ClearAlarms", "OnTimerFired"}
    \/ last.op \in {"RemoveAlarm", "EnableAlarm"} /\ last.ret = TRUE

\* C8: after AddAlarm, a RemoveAlarm or EnableAlarm that found its id,
\* ClearAlarms and every run of OnTimerFired the stored list holds exactly
\* the enabled records of the store, in store order, and no disabled one;
\* and the records Initialize loads are those of the stored list, so a
\* record that was not stored does not come back after a restart.
C8_PersistedIsEnabled ==
    /\ SavedStep =>
         LET en == SelectSeq(alarms_, LAMBDA a : a.enabled)
         IN  /\ settings_list.kind = "array"
             /\ Len(settings_list.items) = Len(en)
             /\ \A k \in 1..Len(en) :
                  /\ settings_list.items[k] = AlarmToJson(en[k])
                  /\ settings_list.items[k].enabled
    /\ last.op = "Initialize" =>
         /\ Len(alarms_) = Len(settings_list.items)
         /\ \A k \in 1..Len(alarms_) :
              alarms_[k].id = settings_list.items[k].id

\* C8 witness: EnableAlarm(id, false) left one of two records disabled, and
\* only the other one is stored.
C8_Witness ==
    /\ last.op = "EnableAlarm" /\ last.ret = TRUE
    /\ Len(alarms_) = 2
    /\ Len(settings_list.items) = 1
    /\ \E a \in Range(alarms_) : ~a.enabled
    /\ \E a \in Range(alarms_) : a.enabled

\* The fields of a record that are stored.
StoredFields(a) ==
    <<a.id, a.type, a.year, a.month, a.day, a.hour, a.minute, a.second,
      a.weekdays_mask, a.interval_seconds, a.label>>

\* The store a fresh manager holds after loading what SaveToSettings wrote.
RoundTrip(alarms) ==
    LoadFromSettings(SaveToSettings(alarms), <<>>, 1).alarms

\* C9, as stated: saving and loading into a fresh store yields the enabled
\* records, each with identical id, type, date, time, weekday mask,
\* interval_seconds and label.
C9_RoundTripIdentical ==
    LET en   == SelectSeq(alarms_, LAMBDA a : a.enabled)
        back == RoundTrip(alarms_)
    IN  /\ Len(back) = Len(en)
        /\ \A k \in 1..Len(en) : StoredFields(back[k]) = StoredFields(en[k])

\* C9, amended: saving and loading into a fresh store yields the enabled
\* records, in order, each with identical id, type, date, time, weekday mask
\* and label; interval_seconds is identical for an Interval record and is 0
\* for a record of any other type, whatever it was before.
C9_RoundTrip ==
    LET en   == SelectSeq(alarms_, LAMBDA a : a.enabled)
        back == RoundTrip(alarms_)
    IN  /\ Len(back) = Len(en)
        /\ \A k \in 1..Len(en) :
             /\ back[k].enabled
             /\ StoredFields(back[k]) =
                  StoredFields([en[k] EXCEPT !.interval_seconds =
                      IF en[k].type = "Interval" THEN @ ELSE 0])

\* C9 witness: the store that was just saved holds a disabled record and an
\* enabled Weekly record whose interval_seconds is not 0.
C9_Witness ==
    /\ SavedStep
    /\ \E a \in Range(alarms_) : ~a.enabled
    /\ \E a \in Range(alarms_) :
         a.enabled /\ a.type = "Weekly" /\ a.interval_seconds # 0

\* A step that is one whole operation op of the calling context.
CallerStep(op) ==
    pc.caller = "locked" /\ pc'.caller = "idle" /\ last'.op = op

\* C10: RemoveAlarm and EnableAlarm with an id no record has return false
\* and leave the records, next_id_, the stored list and the timer as they
\* were; with an id a record has they return true, RemoveAlarm takes exactly
\* that record out, EnableAlarm sets its enabled flag and next_trigger
\* together (disabled with next_trigger 0, or enabled and recalculated), and
\* every other record is unchanged.
C10_UnknownIdChangesNothing ==
    [][/\ CallerStep("RemoveAlarm") =>
            LET id == last'.arg
            IN  IF id \notin Ids(alarms_)
                THEN /\ last'.ret = FALSE
                     /\ UNCHANGED <<alarms_, next_id_, settings_list, timer_>>
                ELSE /\ last'.ret = TRUE
                     /\ next_id_' = next_id_
                     /\ Len(alarms_') = Len(alarms_) - 1
                     /\ Ids(alarms_') = Ids(alarms_) \ {id}
                     /\ \A j \in Ids(alarms_') :
                          RecordOf(alarms_', j) = RecordOf(alarms_, j)
       /\ CallerStep("EnableAlarm") =>
            LET id == last'.arg.id
                e  == last'.arg.enable
            IN  IF id \notin Ids(alarms_)
                THEN /\ last'.ret = FALSE
                     /\ UNCHANGED <<alarms_, next_id_, settings_list, timer_>>
                ELSE /\ last'.ret = TRUE
                     /\ next_id_' = next_id_
                     /\ Len(alarms_') = Len(alarms_)
                     /\ \A i \in 1..Len(alarms_) :
                          IF alarms_[i].id # id
                          THEN alarms_'[i] = alarms_[i]
                          ELSE /\ ~e => alarms_'[i] =
                                     [alarms_[i] EXCEPT !.enabled = FALSE,
                                                        !.next_trigger = 0]
                               /\ e => alarms_'[i] = RecalculateNextTrigger(
                                     [alarms_[i] EXCEPT !.enabled = TRUE], now)
                               /\ ~alarms_'[i].enabled
                                     => alarms_'[i].next_trigger = 0
    ]_vars

\* C10 witness: RemoveAlarm with an unknown id returned false beside two
\* records and a running timer.
C10_Witness ==
    /\ last.op = "RemoveAlarm" /\ last.ret = FALSE
    /\ last.arg \notin Ids(alarms_)
    /\ Len(alarms_) = 2
    /\ timer_.active

\* The records of a store that are due at instant t.
DueAt(alarms, t) ==
    {a \in Range(alarms) : a.enabled /\ a.next_trigger # 0 /\ a.next_trigger <= t}

\* C11: with an enabled OneShot whose trigger is the soonest and another
\* enabled record with a later trigger, an operation that re-arms leaves the
\* timer armed for the OneShot's trigger; and when the handler runs at or
\* after that trigger and before the other one, only the OneShot fires, it
\* becomes disabled with next_trigger 0, and the re-arm that ends the
\* handler targets the other trigger.
C11_OneShotThenNext ==
    /\ [](Rearmed =>
            \A a, b \in Pending :
                (/\ a.type = "OneShot"
                 /\ a.next_trigger < b.next_trigger
                 /\ \A c \in Pending : a.next_trigger <= c.next_trigger)
                => /\ timer_.active
                   /\ timer_.soonest = a.next_trigger
                   /\ RecordOf(alarms_, timer_.target).next_trigger
                        = a.next_trigger)
    /\ [][FiringStep =>
            \A a, b \in Pending :
                (/\ a.type = "OneShot"
                 /\ DueAt(alarms_, now) = {a}
                 /\ now < b.next_trigger
                 /\ \A c \in Pending \ {a} : b.next_trigger <= c.next_trigger)
                => /\ last'.fired = <<a.id>>
                   /\ RecordOf(alarms_', a.id) =
                        [a EXCEPT !.enabled = FALSE, !.next_trigger = 0]
                   /\ RecordOf(alarms_', b.id) = b
                   /\ timer_'.active
                   /\ timer_'.soonest = b.next_trigger
                   /\ RecordOf(alarms_', timer_'.target).next_trigger
                        = b.next_trigger
       ]_vars

\* C11 witness: the handler ran between the two triggers, fired the OneShot
\* alone and left the timer armed for the trigger of the other record, ten
\* seconds after the OneShot's.
C11_Witness ==
    /\ last.op = "OnTimerFired"
    /\ Len(last.fired) = 1
    /\ Len(alarms_) = 2
    /\ \E a, b \in Range(alarms_) :
         /\ a.id = last.fired[1] /\ a.type = "OneShot"
         /\ ~a.enabled /\ a.next_trigger = 0
         /\ b.enabled /\ b.next_trigger = Base + 20
         /\ now >= Base + 10 /\ now < Base + 20
         /\ timer_.active /\ timer_.soonest = Base + 20
         /\ timer_.target = b.id

\* The record the last step of the one-record engine was applied to.
Before == last.arg

\* The record as that step left it.
After == alarms_[1]

\* C12: for an enabled Interval record with effective interval k
\* (interval_seconds if it is at least 1, else 60): Recalculate at now = T
\* with next_trigger 0, as AddAlarm calls it, yields next_trigger = T + k; a
\* handler run that fires it at instant N yields next_trigger = N + k; and
\* Recalculate at any now < next_trigger leaves the record unchanged.
C12_IntervalRule ==
    /\ (last.op = "Recalculate" /\ Before.type = "Interval" /\ Before.enabled) =>
         LET k == IF Before.interval_seconds >= 1
                  THEN Before.interval_seconds ELSE 60
         IN  /\ After.enabled
             /\ Before.next_trigger = 0 => After.next_trigger = now + k
             /\ (Before.next_trigger # 0 /\ now < Before.next_trigger)
                  => After = Before
    /\ (last.op = "Advance" /\ Before.type = "Interval") =>
         LET k == IF Before.interval_seconds >= 1
                  THEN Before.interval_seconds ELSE 60
         IN  /\ After.enabled
             /\ After.next_trigger = now + k
             /\ After = [Before EXCEPT !.next_trigger = now + k]

\* C12 witness: the record with interval 30 that was recalculated at
\* 06:59:50 has fired at 07:00:20 and is pending for 07:00:50.
C12_Witness ==
    /\ last.op = "Advance"
    /\ Before.type = "Interval" /\ Before.interval_seconds = 30
    /\ now = At(2025, 1, 31, 7, 0, 20)
    /\ Before.next_trigger = At(2025, 1, 31, 6, 59, 50) + 30
    /\ After.next_trigger = At(2025, 1, 31, 6, 59, 50) + 60

\* The days from 1970-01-01 to a date of the proleptic Gregorian calendar,
\* counted in whole 400-year eras from March to March (a day of the month
\* past the end of the month counts on into the next month).
CivilDays(y, m, d) ==
    LET yy  == IF m <= 2 THEN y - 1 ELSE y
        era == yy \div 400
        yoe == yy - era * 400
        mp  == IF m > 2 THEN m - 3 ELSE m + 9
        doy == (153 * mp + 2) \div 5 + d - 1
        doe == yoe * 365 + yoe \div 4 - yoe \div 100 + doy
    IN  era * 146097 + doe - 719468

\* The UTC instant of a date and time of day; an instant after TimeMax is
\* held as TimeMax.
CalendarInstant(y, m, d, hour, minute, second) ==
    LET days == CivilDays(y, m, d)
        tod  == hour * 3600 + minute * 60 + second
    IN  IF (days - 24855) * 86400 + tod - 11648 >= 0 THEN TimeMax
        ELSE days * 86400 + tod

\* C13: for an enabled OneShot record Recalculate(record, now) sets
\* enabled = false and next_trigger = 0 whenever the instant of its year,
\* month, day, hour, minute and second is <= now, and otherwise keeps it
\* enabled with next_trigger equal to that instant; so a OneShot whose date
\* is past is left disabled by AddAlarm and by EnableAlarm(id, true), and
\* the scan of the timer finds no target in it.
C13_OneShotRule ==
    (/\ last.op \in {"Recalculate", "Reenable"}
     /\ Before.type = "OneShot"
     /\ Before.enabled \/ last.op = "Reenable") =>
        LET t == CalendarInstant(Before.year, Before.month, Before.day,
                                 Before.hour, Before.minute, Before.second)
        IN  IF t <= now
            THEN /\ ~After.enabled
                 /\ After.next_trigger = 0
                 /\ ScanSoonest(<<After>>, 1, 0, 0).target = 0
            ELSE /\ After.enabled
                 /\ After.next_trigger = t

\* The seconds since midnight of a record's time of day.
TimeOfDay(a) == a.hour * 3600 + a.minute * 60 + a.second

\* C14: for an enabled Daily record with hour in 0..23, minute and second in
\* 0..59 and every now, Recalculate yields the one instant t with
\* now < t <= now + 86400 whose UTC time of day is hour:minute:second, and
\* changes nothing else; 07:00:00 recalculated at 07:05:00 of a day yields
\* 07:00:00 of the day after.
C14_DailyRule ==
    (last.op = "Recalculate" /\ Before.type = "Daily" /\ Before.enabled) =>
        /\ After = [Before EXCEPT !.next_trigger = After.next_trigger]
        /\ now < After.next_trigger
        /\ After.next_trigger <= now + 86400
        /\ After.next_trigger % 86400 = TimeOfDay(Before)
        /\ (now = At(2025, 1, 31, 7, 5, 0) /\ TimeOfDay(Before) = 7 * 3600)
             => After.next_trigger = At(2025, 2, 1, 7, 0, 0)

\* C14 witness: the Daily record of 07:00:00, recalculated at 07:05:00 of
\* 2025-01-31, is pending for 07:00:00 of 2025-02-01.
C14_Witness ==
    /\ last.op = "Recalculate"
    /\ Before.type = "Daily" /\ Before.enabled
    /\ Before.hour = 7 /\ Before.minute = 0 /\ Before.second = 0
    /\ now = At(2025, 1, 31, 7, 5, 0)
    /\ After.next_trigger = At(2025, 2, 1, 7, 0, 0)

\* The weekday of the UTC day number d (days since 1970-01-01, a Thursday),
\* 0 = Monday ... 6 = Sunday, is selected in a weekday mask.
WeekdaySelected(mask, d) ==
    (mask \div (2 ^ ((d + 3) % 7))) % 2 = 1

\* The instant t is at the time of day tod on a selected weekday.
WeeklySlot(mask, tod, t) ==
    t % 86400 = tod /\ WeekdaySelected(mask, t \div 86400)

\* C15: for an enabled Weekly record Recalculate(record, now) yields the
\* earliest instant after now that is at the record's time of day on a UTC
\* day whose weekday bit (bit0 = Monday ... bit6 = Sunday) is set in the
\* mask; with only today's weekday selected and today's time passed that
\* is the same weekday 7 days later; with an empty mask it yields
\* next_trigger 0 and the record stays enabled.
C15_WeeklyRule ==
    (last.op = "Recalculate" /\ Before.type = "Weekly" /\ Before.enabled) =>
        LET mask == Before.weekdays_mask
            tod  == TimeOfDay(Before)
            t    == After.next_trigger
        IN  /\ After = [Before EXCEPT !.next_trigger = t]
            /\ mask % 128 = 0 => t = 0
            /\ mask % 128 # 0 =>
                 /\ t > now
                 /\ WeeklySlot(mask, tod, t)
                 /\ \A d \in (now \div 86400)..(t \div 86400) :
                      LET c == d * 86400 + tod
                      IN  (c > now /\ WeeklySlot(mask, tod, c)) => c >= t
            /\ (/\ mask = 2 ^ (((now \div 86400) + 3) % 7)
                 /\ (now \div 86400) * 86400 + tod <= now)
                 => t = (now \div 86400) * 86400 + tod + 7 * 86400

\* C15 witness: the record of Fridays at 07:00:00, recalculated on Friday
\* 2025-01-31 at 07:05:00, is pending for Friday 2025-02-07 at 07:00:00.
C15_Witness ==
    /\ last.op = "Recalculate"
    /\ Before.type = "Weekly" /\ Before.enabled
    /\ Before.weekdays_mask = 16 /\ TimeOfDay(Before) = 7 * 3600
    /\ now = At(2025, 1, 31, 7, 5, 0)
    /\ After.next_trigger = At(2025, 2, 7, 7, 0, 0)

\* The date of the UTC day number z (days since 1970-01-01) in the
\* proleptic Gregorian calendar, counted in whole 400-year eras from March
\* to March.
CivilDate(z) ==
    LET z1  == z + 719468
        era == z1 \div 146097
        doe == z1 - era * 146097
        yoe == (doe - doe \div 1460 + doe \div 36524 - doe \div 146096) \div 365
        doy == doe - (365 * yoe + yoe \div 4 - yoe \div 100)
        mp  == (5 * doy + 2) \div 153
        m   == IF mp < 10 THEN mp + 3 ELSE mp - 9
    IN  [year  |-> yoe + era * 400 + (IF m <= 2 THEN 1 ELSE 0),
         month |-> m,
         day   |-> doy - (153 * mp + 2) \div 5 + 1]

\* The instant t is at the time of day tod on the day-of-month dom.
MonthlySlot(dom, tod, t) ==
    t % 86400 = tod /\ CivilDate(t \div 86400).day = dom

\* The last day number of the 24 months that start with the month of the
\* day number z.
WindowEnd(z) ==
    CivilDays(CivilDate(z).year + 2, CivilDate(z).month, 1) - 1

\* C16: for an enabled Monthly record (day of month at least 1)
\* Recalculate(record, now) yields the earliest instant after now that is on
\* day-of-month `day` at the record's time of day, in the month of now or
\* one of the 23 that follow; a month that has fewer days has no such day
\* and is passed over with no clamping to its end (day 31 in February
\* yields March 31); when the 24 months hold no such instant next_trigger
\* is 0 and the record stays enabled.
C16_MonthlyRule ==
    (/\ last.op = "Recalculate" /\ Before.type = "Monthly"
     /\ Before.enabled /\ Before.day >= 1) =>
        LET tod   == TimeOfDay(Before)
            t     == After.next_trigger
            today == now \div 86400
        IN  /\ After = [Before EXCEPT !.next_trigger = t]
            /\ t # 0 =>
                 /\ t > now
                 /\ MonthlySlot(Before.day, tod, t)
                 /\ t \div 86400 <= WindowEnd(today)
                 /\ \A d \in today..(t \div 86400) :
                      LET c == d * 86400 + tod
                      IN  (c > now /\ MonthlySlot(Before.day, tod, c)) => c >= t
            /\ t = 0 =>
                 \A d \in today..WindowEnd(today) :
                     LET c == d * 86400 + tod
                     IN  ~(c > now /\ MonthlySlot(Before.day, tod, c))
            /\ (/\ now = At(2025, 2, 10, 12, 0, 0)
                 /\ Before.day = 31 /\ tod = 7 * 3600)
                 => t = At(2025, 3, 31, 7, 0, 0)

\* C16 witness: the record of day 31 at 07:00:00, recalculated on
\* 2025-02-10, is pending for 2025-03-31 at 07:00:00.
C16_Witness ==
    /\ last.op = "Recalculate"
    /\ Before.type = "Monthly" /\ Before.enabled
    /\ Before.day = 31 /\ TimeOfDay(Before) = 7 * 3600
    /\ now = At(2025, 2, 10, 12, 0, 0)
    /\ After.next_trigger = At(2025, 3, 31, 7, 0, 0)

\* C17: Recalculate is idempotent for a fixed now: applied a second time at
\* the same instant to a record it has just been applied to, it leaves
\* enabled and next_trigger as the first application left them, for every
\* enabled Daily, Weekly or Monthly record and for every Interval record.
C17_RecalculateIdempotent ==
    [][(/\ last.op = "Recalculate" /\ last'.op = "Recalculate"
        /\ now' = now
        /\ \/ alarms_[1].type \in {"Daily", "Weekly", "Monthly"}
              /\ alarms_[1].enabled
           \/ alarms_[1].type = "Interval")
       => /\ alarms_'[1].enabled = alarms_[1].enabled
          /\ alarms_'[1].next_trigger = alarms_[1].next_trigger
      ]_vars

\* C17 witness: Recalculate was applied to an Interval record that an
\* application at the same instant had left pending 30 seconds ahead, and
\* it left the record as it found it.
C17_Witness ==
    /\ last.op = "Recalculate"
    /\ Before.type = "Interval" /\ Before.enabled
    /\ Before.next_trigger = now + 30
    /\ After = Before

\* The first record in store order that is pending for the least pending
\* trigger.
FirstSoonest ==
    LET m == CHOOSE t \in {a.next_trigger : a \in Pending} :
                 \A a \in Pending : t <= a.next_trigger
        i == CHOOSE k \in 1..Len(alarms_) :
                 /\ alarms_[k] \in Pending /\ alarms_[k].next_trigger = m
                 /\ \A j \in 1..(k - 1) :
                      ~(alarms_[j] \in Pending /\ alarms_[j].next_trigger = m)
    IN  alarms_[i]

\* What NextAlarmJson returns and leaves alone, whatever the timer.
NextAlarmResult ==
    /\ UNCHANGED <<alarms_, next_id_, settings_list, timer_>>
    /\ (last'.ret.kind = "empty") <=> (Pending = {})
    /\ Pending # {} =>
         /\ last'.ret.id = FirstSoonest.id
         /\ last'.ret.time = FirstSoonest.next_trigger
         /\ last'.ret.label = FirstSoonest.label

\* C18, as stated: NextAlarmJson returns "{}" iff no record is enabled with
\* nonzero next_trigger; otherwise it returns the first record in store
\* order whose next_trigger is the least nonzero one among the enabled
\* records, and that record is the one the scheduler is armed for at that
\* moment; the call changes no record and does not re-arm the timer.
C18_NextIsArmedRecord ==
    [][CallerStep("NextAlarmJson") =>
        /\ NextAlarmResult
        /\ Pending # {} =>
             /\ timer_.active
             /\ timer_.target = last'.ret.id
             /\ timer_.soonest = last'.ret.time
    ]_vars

\* C18, amended: the same result, and whenever the timer is running the
\* record returned is the one the timer is armed for (from the expiry of
\* the timer until the handler has run no timer is running, and the call
\* returns the due record all the same).
C18_NextAlarm ==
    [][CallerStep("NextAlarmJson") =>
        /\ NextAlarmResult
        /\ (Pending # {} /\ timer_.active) =>
             /\ timer_.target = last'.ret.id
             /\ timer_.soonest = last'.ret.time
        /\ (Pending = {}) => ~timer_.active
    ]_vars

\* C18 witness: NextAlarmJson returned the first of two records pending for
\* the same instant, the one the running timer is armed for.
C18_Witness ==
    /\ last.op = "NextAlarmJson"
    /\ Len(alarms_) = 2
    /\ alarms_[1] \in Pending /\ alarms_[2] \in Pending
    /\ alarms_[1].next_trigger = alarms_[2].next_trigger
    /\ last.ret.kind = "alarm" /\ last.ret.id = alarms_[1].id
    /\ timer_.active /\ timer_.target = alarms_[1].id

\* The largest id in the stored list, 0 when it holds no record.
MaxStoredId ==
    LET ids == {settings_list.items[k].id : k \in 1..Len(settings_list.items)}
    IN  IF ids = {} THEN 0 ELSE CHOOSE m \in ids : \A j \in ids : j <= m

\* C19: after Initialize has loaded the stored list, next_id_ is the largest
\* loaded id plus 1 (1 when nothing was loaded); next_id_ never goes down
\* while the process lives and AddAlarm returns it, so every id returned
\* later differs from the id of every loaded record; and every loaded
\* record has been recalculated against the current time (no enabled record
\* is left with a trigger that is not after now) before the one re-arm that
\* ends Initialize, which leaves the timer armed for the least of the
\* recalculated triggers.
C19_InitializeLoads ==
    /\ [](last.op = "Initialize" =>
            /\ next_id_ = MaxStoredId + 1
            /\ \A a \in Range(alarms_) : a.id < next_id_
            /\ Len(alarms_) = Len(settings_list.items)
            /\ \A k \in 1..Len(alarms_) :
                 /\ StoredFields(alarms_[k]) =
                      StoredFields(JsonToAlarm(settings_list.items[k]))
                 /\ alarms_[k].enabled => (alarms_[k].next_trigger = 0
                                           \/ alarms_[k].next_trigger > now)
                 /\ ~alarms_[k].enabled => alarms_[k].next_trigger = 0
                 /\ alarms_[k].type \in {"Daily", "Interval"}
                      => (alarms_[k].enabled /\ alarms_[k].next_trigger > now)
            /\ SchedulerConsistent)
    /\ [][(tools /\ tools') => next_id_' >= next_id_]_vars
    /\ [][CallerStep("AddAlarm") =>
            /\ last'.ret = next_id_
            /\ next_id_' = next_id_ + 1
            /\ \A a \in Range(alarms_) : a.id < last'.ret
       ]_vars

\* C19 witness: Initialize, run after the first instant of the model, loaded
\* a list whose only record has the id 2 and left next_id_ at 3, the record
\* pending for an instant after now and the timer armed for it.
C19_Witness ==
    /\ last.op = "Initialize"
    /\ now > Base
    /\ Len(alarms_) = 1
    /\ alarms_[1].id = 2
    /\ next_id_ = 3
    /\ alarms_[1].enabled /\ alarms_[1].next_trigger > now
    /\ timer_.active /\ timer_.target = 2

\* The step just taken is a caller's removal, clearing or disabling of the
\* record with the id.
TakenAwayByCaller(id) ==
    \/ CallerStep("RemoveAlarm") /\ last'.arg = id
    \/ CallerStep("ClearAlarms")
    \/ CallerStep("EnableAlarm") /\ last'.arg.id = id /\ ~last'.arg.enable

\* C20: no scheduled trigger is lost within one process lifetime: a record
\* that is enabled with a nonzero next_trigger = t keeps that trigger through
\* every step, whatever calls are interleaved (EnableAlarm(id, true) on the
\* same record among them), until the firing handler fires the record at an
\* instant now >= t, unless a caller removes, clears or disables it.
C20_NoTriggerLost ==
    [][tools' =>
        \A a \in Pending :
            \/ TakenAwayByCaller(a.id)
            \/ /\ FiringStep
               /\ a.id \in Range(last'.fired)
               /\ now >= a.next_trigger
            \/ /\ a.id \in Ids(alarms_')
               /\ RecordOf(alarms_', a.id).enabled
               /\ RecordOf(alarms_', a.id).next_trigger = a.next_trigger
    ]_vars

\* A whole run of the firing handler at an instant at which no enabled
\* record has a nonzero next_trigger that is not after now.
StaleRun ==
    /\ FiringStep
    /\ \A a \in Range(alarms_) :
         ~(a.enabled /\ a.next_trigger # 0 /\ a.next_trigger <= now)

\* C21: a run of OnTimerFired at which no enabled record has a nonzero
\* next_trigger <= now fires nothing (no record is reported fired, no side
\* effect is performed or handed to the application), keeps every record's
\* enabled flag and next_trigger, and leaves the timer stopped when no enabled
\* record has a nonzero next_trigger and otherwise running, armed for the
\* least such next_trigger, which is the one of before the run since no
\* next_trigger has changed.
C21_StaleCallbackHarmless ==
    [][StaleRun =>
        LET before == {a \in Range(alarms_) : a.enabled /\ a.next_trigger # 0}
        IN  /\ last'.fired = <<>>
            /\ last'.inline = <<>>
            /\ app_queue' = app_queue
            /\ Len(alarms_') = Len(alarms_)
            /\ \A i \in 1..Len(alarms_) :
                 /\ alarms_'[i].id = alarms_[i].id
                 /\ alarms_'[i].enabled = alarms_[i].enabled
                 /\ alarms_'[i].next_trigger = alarms_[i].next_trigger
            /\ before = {} => ~timer_'.active
            /\ before # {} =>
                 /\ timer_'.active
                 /\ \E a \in before : timer_'.soonest = a.next_trigger
                 /\ \A a \in before : timer_'.soonest <= a.next_trigger
    ]_vars

\* C21 witness: a run of the handler has fired nothing while a record was
\* pending for a later instant, and the timer runs for that record.
C21_Witness ==
    /\ last.op = "OnTimerFired"
    /\ last.fired = <<>>
    /\ Pending # {}
    /\ \A a \in Pending : a.next_trigger > now
    /\ timer_.active
    /\ \E a \in Pending : timer_.soonest = a.next_trigger

====
